---- MODULE Spec2Model ----
(***************************************************************************)
(* LyricalSync-AI: the Sync Controller of src/App.tsx (status, inputs,     *)
(* the asynchronous analysis task), the AI service of                      *)
(* src/services/geminiService.ts, the helpers of utils.ts                  *)
(* (src/unnamed/part_001) and the Line Store operations of App.tsx and     *)
(* EditorRow.tsx (src/unnamed/part_002).                                   *)
(*                                                                         *)
(* Conventions.                                                            *)
(*  - A string the code inspects character by character (a raw lyrics      *)
(*    text, a time string, a file name, a line's text) is a sequence of    *)
(*    one-character strings, so that split, trim, replace and the number   *)
(*    parsers are computed as the code computes them.                      *)
(*  - A time in seconds is an integer number of milliseconds.  Where the   *)
(*    code's double arithmetic decides a result (formatLrcTime) the        *)
(*    integer stands for the double nearest to it.                         *)
(*  - A confidence is an integer number of hundredths.                     *)
(*  - A JavaScript object is a record; a property the object does not have *)
(*    is a field the record does not have.                                 *)
(*  - attempt, lastOp, alertMsg, aiResponse and edits are history          *)
(*    variables: the code does not hold them, and no guard reads them      *)
(*    except the bound on edits.                                           *)
(***************************************************************************)
EXTENDS Integers, Sequences, FiniteSets, TLC

VARIABLES
  status,          \* App.tsx:13  AppStatus
  audioFile,       \* App.tsx:14  File | null
  textFile,        \* App.tsx:15  File | null
  audioSrc,        \* App.tsx:16  object URL | null
  lines,           \* App.tsx:18  LyricLine[] in display order
  meta,            \* App.tsx:19  MetaData
  currentTime,     \* App.tsx:20  last playback position reported
  loadingMessage,  \* App.tsx:21
  pc,              \* position of the analysis task of handleAutoProcess
  errMsg,          \* the `msg` captured by the catch block, App.tsx:103
  attempt,         \* history: what the current analysis attempt has done
  lastOp,          \* history: the handler or task step that ran last
  alertMsg,        \* history: the alert() raised by that step, or NoAlert
  aiResponse,      \* history: the AI's answer that step received, or Null
  edits,           \* history: editor events since Editing was entered
  download,        \* history: the file that step wrote, or Null
  probe            \* a call of a utils.ts function on its own, or Null

vars == <<status, audioFile, textFile, audioSrc, lines, meta, currentTime,
          loadingMessage, pc, errMsg, attempt, lastOp, alertMsg, aiResponse,
          edits, download, probe>>

(***************************************************************************)
(* Bounds of the exploration.                                              *)
(***************************************************************************)
\* the longest `lines` array an AI response carries
MaxEntries == 2
\* editor events explored after each entry into Editing
MaxEdits == 1

(***************************************************************************)
(* Characters and strings.                                                 *)
(***************************************************************************)
NL == "\n"
CR == "\r"
\* what String.prototype.trim removes (the characters of it the inputs use)
WhiteSpace == {" ", "\t", NL, CR}
DigitChars == <<"0", "1", "2", "3", "4", "5", "6", "7", "8", "9">>
Digits == {DigitChars[i] : i \in 1..10}
DigitVal(c) == (CHOOSE i \in 1..10 : DigitChars[i] = c) - 1

\* JavaScript's undefined, where a string was expected
Undefined == <<"undefined">>
Null == [null |-> TRUE]

RECURSIVE SplitAcc(_, _, _, _)
SplitAcc(s, sep, i, cur) ==
  IF i > Len(s) THEN <<cur>>
  ELSE IF s[i] = sep THEN <<cur>> \o SplitAcc(s, sep, i + 1, <<>>)
  ELSE SplitAcc(s, sep, i + 1, Append(cur, s[i]))

\* String.prototype.split(sep) for a one-character separator
Split(s, sep) == SplitAcc(s, sep, 1, <<>>)

RECURSIVE TrimStart(_)
TrimStart(s) ==
  IF s # <<>> /\ Head(s) \in WhiteSpace THEN TrimStart(Tail(s)) ELSE s

RECURSIVE TrimEnd(_)
TrimEnd(s) ==
  IF s # <<>> /\ s[Len(s)] \in WhiteSpace
  THEN TrimEnd(SubSeq(s, 1, Len(s) - 1)) ELSE s

\* String.prototype.trim
Trim(s) == TrimEnd(TrimStart(s))

\* the longest prefix of s made of digits
RECURSIVE DigitPrefix(_)
DigitPrefix(s) ==
  IF s # <<>> /\ Head(s) \in Digits
  THEN <<Head(s)>> \o DigitPrefix(Tail(s)) ELSE <<>>

RECURSIVE DecimalValue(_)
DecimalValue(ds) ==
  IF ds = <<>> THEN 0
  ELSE 10 * DecimalValue(SubSeq(ds, 1, Len(ds) - 1)) + DigitVal(ds[Len(ds)])


\* parseInt(s, 10): leading white space, an optional sign, then the longest
\* run of digits; anything after it is ignored; no digit gives NaN.
parseInt(s) ==
  LET t    == TrimStart(s)
      neg  == t # <<>> /\ Head(t) = "-"
      u    == IF t # <<>> /\ Head(t) \in {"-", "+"} THEN Tail(t) ELSE t
      ds   == DigitPrefix(u)
  IN  IF ds = <<>> THEN [nan |-> TRUE, val |-> 0]
      ELSE [nan |-> FALSE,
            val |-> IF neg THEN 0 - DecimalValue(ds) ELSE DecimalValue(ds)]

\* the first three fraction digits as milliseconds (later digits are below
\* the model's resolution)
FractionMs(fs) ==
  LET d(i) == IF i <= Len(fs) THEN DigitVal(fs[i]) ELSE 0
  IN  100 * d(1) + 10 * d(2) + d(3)

\* mutant of parseFloat: the fraction is dropped
parseFloat_Whole(s) ==
  LET t    == TrimStart(s)
      neg  == t # <<>> /\ Head(t) = "-"
      u    == IF t # <<>> /\ Head(t) \in {"-", "+"} THEN Tail(t) ELSE t
      ds   == DigitPrefix(u)
  IN  IF ds = <<>> THEN [nan |-> TRUE, val |-> 0]
      ELSE [nan |-> FALSE,
            val |-> IF neg THEN 0 - 1000 * DecimalValue(ds)
                    ELSE 1000 * DecimalValue(ds)]

\* parseFloat(s), in milliseconds: leading white space, an optional sign,
\* digits, an optional "." and digits; anything after is ignored; no digit at
\* all gives NaN.  (Exponents and "Infinity" are not among the inputs.)
parseFloat(s) ==
  LET t    == TrimStart(s)
      neg  == t # <<>> /\ Head(t) = "-"
      u    == IF t # <<>> /\ Head(t) \in {"-", "+"} THEN Tail(t) ELSE t
      ds   == DigitPrefix(u)
      r    == SubSeq(u, Len(ds) + 1, Len(u))
      fs   == IF r # <<>> /\ Head(r) = "." THEN DigitPrefix(Tail(r)) ELSE <<>>
      mag  == 1000 * DecimalValue(ds) + FractionMs(fs)
  IN  IF ds = <<>> /\ fs = <<>> THEN [nan |-> TRUE, val |-> 0]
      ELSE [nan |-> FALSE, val |-> IF neg THEN 0 - mag ELSE mag]

NotBracket(c) == c \notin {"[", "]"}

\* utils.ts parseLrcTime, in milliseconds
parseLrcTime(timeStr) ==
  LET cleanStr == SelectSeq(timeStr, NotBracket)
      parts    == Split(cleanStr, ":")
  IN  IF Len(parts) # 2 THEN 0
      ELSE LET minutes == parseInt(parts[1])
               seconds == parseFloat(parts[2])
           IN  IF minutes.nan \/ seconds.nan THEN 0
               ELSE minutes.val * 60000 + seconds.val

(***************************************************************************)
(* utils.ts formatLrcTime.  `seconds` is a double; the model's time of v   *)
(* milliseconds stands for the double nearest to v/1000.  Math.floor of    *)
(* seconds / 60 and of seconds % 60 is then what integer arithmetic gives. *)
(* (seconds % 1) * 100 is not: seconds % 1 is exact, but it is the         *)
(* fraction of the double, which lies a little below or above the decimal  *)
(* fraction, and the product is rounded once more.                         *)
(***************************************************************************)
RECURSIVE Pow2(_)
Pow2(n) == IF n = 0 THEN 1 ELSE 2 * Pow2(n - 1)

\* 2^n modulo 100
RECURSIVE Pow2Mod100(_)
Pow2Mod100(n) == IF n = 0 THEN 1 ELSE (2 * Pow2Mod100(n - 1)) % 100

\* the binary exponent of n/d > 0: the e with 2^e <= n/d < 2^(e+1)
Log2Floor(n, d) ==
  CHOOSE e \in -7..21 :
    IF e >= 0 THEN d * Pow2(e) <= n /\ n < d * Pow2(e + 1)
    ELSE d <= n * Pow2(0 - e) /\ n * Pow2(0 - e - 1) < d

\* JavaScript's a % b for b > 0: the remainder has the sign of a
Rem(a, b) == IF a >= 0 THEN a % b ELSE 0 - ((0 - a) % b)

\* Math.floor((seconds % 1) * 100).  With a the magnitude in milliseconds:
\* when a is no whole number of hundredths the product is far from an
\* integer and rounding cannot move its floor.  When a is c hundredths past a
\* whole second, seconds is the 53-bit rounding of N/100 (N = a/10), off by
\* -r/2^k or +(100-r)/2^k hundredths where r = N * 2^k mod 100 and 2^-k is
\* the weight of the last bit of seconds; the product c - r/2^k (or
\* c + (100-r)/2^k) rounds to c exactly when the error is at most half the
\* spacing of the doubles next to c.
FractionTimes100(seconds) ==
  LET a == IF seconds >= 0 THEN seconds ELSE 0 - seconds
      w == a % 1000
      c == w \div 10
      N == a \div 10
      Ed == Log2Floor(N, 100)
      r == (c * Pow2Mod100(52 - Ed)) % 100
      \* exponent of the doubles just below c, and of those from c upward
      Eabove == Log2Floor(c, 1)
      Ebelow == IF Pow2(Eabove) = c THEN Eabove - 1 ELSE Eabove
      fallsShort == /\ 0 < r /\ r < 50
                    /\ \/ Ebelow - Ed - 1 < 0
                       \/ r > Pow2(Ebelow - Ed - 1)
      overshoots == /\ r > 50
                    /\ \/ Eabove - Ed - 1 < 0
                       \/ 100 - r > Pow2(Eabove - Ed - 1)
  IN  IF w % 10 # 0 THEN (IF seconds >= 0 THEN c ELSE 0 - (c + 1))
      ELSE IF c = 0 THEN 0
      ELSE IF seconds >= 0 THEN (IF fallsShort THEN c - 1 ELSE c)
      ELSE (IF overshoots THEN 0 - (c + 1) ELSE 0 - c)

\* the decimal digits of n >= 0
RECURSIVE DecimalDigits(_)
DecimalDigits(n) ==
  IF n < 10 THEN <<DigitChars[n + 1]>>
  ELSE DecimalDigits(n \div 10) \o <<DigitChars[(n % 10) + 1]>>

\* Number.prototype.toString of an integer
NumberToString(n) ==
  IF n < 0 THEN <<"-">> \o DecimalDigits(0 - n) ELSE DecimalDigits(n)

\* String.prototype.padStart(2, '0')
PadStart2(str) == IF Len(str) < 2 THEN <<"0">> \o str ELSE str

\* utils.ts:2-12
formatLrcTime(seconds) ==
  LET m     == seconds \div 60000
      s     == Rem(seconds, 60000) \div 1000
      ms    == FractionTimes100(seconds)
      mStr  == PadStart2(NumberToString(m))
      sStr  == PadStart2(NumberToString(s))
      msStr == PadStart2(NumberToString(ms))
  IN  <<"[">> \o mStr \o <<":">> \o sStr \o <<".">> \o msStr \o <<"]">>

(***************************************************************************)
(* utils.ts generateId.  Math.random().toString(36).substring(2, 9) is a   *)
(* random draw; ids are only ever compared for equality, so a draw is      *)
(* either equal to an id already in use or a new one, and new ids are      *)
(* named by the least number not in use.                                   *)
(***************************************************************************)
FreshId(used) == CHOOSE n \in 1..(Cardinality(used) + 1) : n \notin used

\* the possible results of one generateId() call
generateId(used) == used \cup {FreshId(used)}

\* the possible results of n successive generateId() calls
RECURSIVE IdSeqs(_, _)
IdSeqs(n, used) ==
  IF n = 0 THEN {<<>>}
  ELSE UNION { { <<i>> \o rest : rest \in IdSeqs(n - 1, used \cup {i}) }
               : i \in generateId(used) }

(***************************************************************************)
(* The manual-fallback document.                                           *)
(***************************************************************************)
NonBlank(l) == Trim(l) # <<>>

\* mutant of rawLines: the lines are not trimmed and not flagged for review
rawLines_Untrimmed(text, ids) ==
  LET kept == SelectSeq(Split(text, NL), NonBlank)
  IN  [i \in 1..Len(kept) |->
         [id |-> ids[i], timestamp |-> 0, text |-> kept[i]]]

\* App.tsx:111-113, the controller's fallback
rawLines(text, ids) ==
  LET kept == SelectSeq(Split(text, NL), NonBlank)
  IN  [i \in 1..Len(kept) |->
         [id |-> ids[i], timestamp |-> 0, text |-> Trim(kept[i]),
          needsReview |-> TRUE]]

\* geminiService.ts:86-93, the service's own fallback
serviceFallback(rawLyrics, ids) ==
  LET kept == SelectSeq(Split(rawLyrics, NL), NonBlank)
  IN  [i \in 1..Len(kept) |->
         [id |-> ids[i], timestamp |-> 0, text |-> Trim(kept[i]),
          needsReview |-> TRUE]]

(***************************************************************************)
(* The AI collaborator's answer, as analyzeLyricsWithAudio sees it:        *)
(*   kind "rejected"  generateContent rejects (transport, quota)           *)
(*   kind "noText"    response.text is empty or undefined                  *)
(*   kind "badJson"   JSON.parse throws                                    *)
(*   kind "json"      parsed is the value JSON.parse returns               *)
(***************************************************************************)
ConfidenceThreshold == 70

\* the try block of analyzeLyricsWithAudio throws
TryThrows(response) ==
  \/ response.kind = "rejected"                        \* line 33
  \/ response.kind = "noText"                          \* line 71
  \/ response.kind = "badJson"                         \* line 73
  \/ /\ response.kind = "json"
     /\ \/ "lines" \notin DOMAIN response.parsed       \* line 76: undefined.map
        \/ \E i \in 1..Len(response.parsed.lines) :    \* line 78 -> utils 16
             "time" \notin DOMAIN response.parsed.lines[i]

\* mutant of MapEntry: the threshold itself is flagged
MapEntry_Inclusive(line, id) ==
  [id          |-> id,
   timestamp   |-> parseLrcTime(line.time),
   text        |-> IF "text" \in DOMAIN line THEN line.text ELSE Undefined,
   needsReview |-> IF "confidence" \in DOMAIN line
                   THEN line.confidence <= ConfidenceThreshold
                   ELSE FALSE]

\* geminiService.ts:76-81
MapEntry(line, id) ==
  [id          |-> id,
   timestamp   |-> parseLrcTime(line.time),
   text        |-> IF "text" \in DOMAIN line THEN line.text ELSE Undefined,
   needsReview |-> IF "confidence" \in DOMAIN line
                   THEN line.confidence < ConfidenceThreshold
                   ELSE FALSE]                         \* undefined < 0.7

\* how many lines analyzeLyricsWithAudio returns
ResultLen(response, rawLyrics) ==
  IF TryThrows(response)
  THEN Len(SelectSeq(Split(rawLyrics, NL), NonBlank))
  ELSE Len(response.parsed.lines)

\* geminiService.ts:8-95; the promise it returns always fulfils
analyzeLyricsWithAudio(response, rawLyrics, ids) ==
  IF TryThrows(response)
  THEN serviceFallback(rawLyrics, ids)
  ELSE [i \in 1..Len(response.parsed.lines) |->
          MapEntry(response.parsed.lines[i], ids[i])]

(***************************************************************************)
(* Inputs.                                                                 *)
(***************************************************************************)
\* App.tsx:66, the size ceiling in bytes
MaxAudioBytes == 25 * 1024 * 1024

NoFile == Null

\* audio files the user may pick: one of exactly the ceiling, and one a byte
\* above it whose name has no extension
AudioFiles ==
  { [name |-> <<"s", ".", "m", "p", "3">>, size |-> MaxAudioBytes],
    [name |-> <<"b", "i", "g">>, size |-> MaxAudioBytes + 1] }

\* raw lyrics texts: empty; one line; three lines and a blank one; lines
\* with surrounding white space, a white-space-only line, CR LF and a final
\* newline; blank lines only
RawTexts ==
  { <<>>,
    <<"a">>,
    <<"a", NL, "b", NL, NL, "c">>,
    <<" ", "a", " ", CR, NL, " ", "\t", NL, "b", NL>>,
    <<NL, " ">> }

TextFiles == { [content |-> t] : t \in RawTexts }

\* entries the AI may return: the two of the spec's example, one at the
\* confidence threshold with an unbracketed negative time and an empty text,
\* and one lacking each property
AiEntries ==
  { [time |-> <<"[", "0", "0", ":", "0", "5", ".", "0", "0", "]">>,
     text |-> <<"h">>, confidence |-> 90],
    [time |-> <<"[", "0", "0", ":", "1", "0", ".", "5", "0", "]">>,
     text |-> <<"w">>, confidence |-> 40],
    [time |-> <<"-", "1", ":", "0", "2", ".", "5">>,
     text |-> <<>>, confidence |-> 70],
    [text |-> <<"h">>, confidence |-> 90],
    [time |-> <<"[", "0", "0", ":", "0", "5", ".", "0", "0", "]">>,
     confidence |-> 90],
    [time |-> <<"[", "0", "0", ":", "0", "5", ".", "0", "0", "]">>,
     text |-> <<"h">>] }

SeqsUpTo(S, n) == UNION { [1..k -> S] : k \in 0..n }

AiResponses ==
  { [kind |-> "rejected"], [kind |-> "noText"], [kind |-> "badJson"],
    [kind |-> "json", parsed |-> [error |-> <<"e">>]] }
  \cup { [kind |-> "json", parsed |-> [lines |-> ls]]
         : ls \in SeqsUpTo(AiEntries, MaxEntries) }

\* positions the audio element reports, in milliseconds
PlaybackPositions == {0, 3000, 8000}
\* what the user types into a line's text box
TypedTexts == {<<>>, <<"x">>}
\* what the user types into a metadata box
TypedMeta == {<<"m">>}

(***************************************************************************)
(* Messages.                                                               *)
(***************************************************************************)
NoAlert == [alert |-> "none"]
\* App.tsx:67
AlertTooLarge == [alert |-> "file too large (limit about 25MB)"]
\* App.tsx:107
AlertAiError(msg) ==
  [alert |-> "AI analysis error, switching to manual mode", msg |-> msg]

(***************************************************************************)
(* The state after construction, App.tsx:13-21.                            *)
(***************************************************************************)
DefaultMeta ==
  [title |-> <<>>, artist |-> <<>>, album |-> <<>>,
   by |-> <<"LyricalSync AI">>]

\* history of an attempt: whether it was started, whether fileToBase64 and
\* the first text() fulfilled, how often the AI service was called,
\* whether the service's try block threw, and whether the catch block's
\* alert was shown
NoAttempt ==
  [started |-> FALSE, encodeOk |-> FALSE, readOk |-> FALSE, aiCalls |-> 0,
   aiFailed |-> FALSE, errorShown |-> FALSE]

Init ==
  /\ status = "IDLE"
  /\ audioFile = NoFile
  /\ textFile = NoFile
  /\ audioSrc = Null
  /\ lines = <<>>
  /\ meta = DefaultMeta
  /\ currentTime = 0
  /\ loadingMessage = "preparing"
  /\ pc = "none"
  /\ errMsg = ""
  /\ attempt = NoAttempt
  /\ lastOp = "init"
  /\ alertMsg = NoAlert
  /\ aiResponse = Null
  /\ edits = 0
  /\ download = Null
  /\ probe = Null

(***************************************************************************)
(* File selection, App.tsx:44-55.  The FileUploader is rendered only in    *)
(* the Idle view (App.tsx:243-262).                                        *)
(***************************************************************************)
\* the index of the "." that /\.[^/.]+$/ matches at, or 0
ExtensionDot(name) ==
  LET dots == { i \in 1..Len(name) : name[i] = "." }
      last == CHOOSE i \in dots : \A j \in dots : j <= i
  IN  IF dots = {} THEN 0
      ELSE IF last < Len(name)
              /\ \A j \in (last + 1)..Len(name) : name[j] # "/"
           THEN last ELSE 0

\* file.name.replace(/\.[^/.]+$/, "")
StripExtension(name) ==
  IF ExtensionDot(name) = 0 THEN name
  ELSE SubSeq(name, 1, ExtensionDot(name) - 1)

handleAudioUpload(file) ==
  /\ status = "IDLE"
  /\ audioFile' = file
  /\ audioSrc' = [blob |-> file]
  /\ meta' = [meta EXCEPT !.title = StripExtension(file.name)]
  /\ lastOp' = "handleAudioUpload"
  /\ alertMsg' = NoAlert
  /\ aiResponse' = Null
  /\ download' = Null
  /\ UNCHANGED <<status, textFile, lines, currentTime, loadingMessage, pc,
                 errMsg, attempt, edits, probe>>

\* mutant of handleTextUpload: the uploader is there while the analysis runs
handleTextUpload_WhileBusy(file) ==
  /\ status \in {"IDLE", "PROCESSING"}
  /\ textFile' = file
  /\ lastOp' = "handleTextUpload"
  /\ alertMsg' = NoAlert
  /\ aiResponse' = Null
  /\ download' = Null
  /\ UNCHANGED <<status, audioFile, audioSrc, lines, meta, currentTime,
                 loadingMessage, pc, errMsg, attempt, edits, probe>>

handleTextUpload(file) ==
  /\ status = "IDLE"
  /\ textFile' = file
  /\ lastOp' = "handleTextUpload"
  /\ alertMsg' = NoAlert
  /\ aiResponse' = Null
  /\ download' = Null
  /\ UNCHANGED <<status, audioFile, audioSrc, lines, meta, currentTime,
                 loadingMessage, pc, errMsg, attempt, edits, probe>>

(***************************************************************************)
(* handleAutoProcess, App.tsx:57-122: the synchronous part (57-76) and the *)
(* task it schedules, one action per await or timer.                       *)
(***************************************************************************)
\* mutant of InputMissing: the lyrics input is not looked at
InputMissing_AudioOnly == audioFile = NoFile

\* App.tsx:63
InputMissing == audioFile = NoFile \/ textFile = NoFile

\* mutant of TooLarge: a ceiling ten times too high
TooLarge_WrongCeiling == audioFile.size > 10 * MaxAudioBytes

\* App.tsx:66
TooLarge == audioFile.size > MaxAudioBytes

\* App.tsx:63: early return.  (The button that calls the handler is disabled
\* in these states, App.tsx:267; the handler's own guard is what decides.)
StartRejectedMissing ==
  /\ status = "IDLE"
  /\ InputMissing
  /\ lastOp' = "handleAutoProcess:missing"
  /\ alertMsg' = NoAlert
  /\ aiResponse' = Null
  /\ download' = Null
  /\ UNCHANGED <<status, audioFile, textFile, audioSrc, lines, meta,
                 currentTime, loadingMessage, pc, errMsg, attempt, edits,
            probe>>

\* App.tsx:66-69: alert and return
StartRejectedTooLarge ==
  /\ status = "IDLE"
  /\ ~InputMissing
  /\ TooLarge
  /\ lastOp' = "handleAutoProcess:tooLarge"
  /\ alertMsg' = AlertTooLarge
  /\ aiResponse' = Null
  /\ download' = Null
  /\ UNCHANGED <<status, audioFile, textFile, audioSrc, lines, meta,
                 currentTime, loadingMessage, pc, errMsg, attempt, edits,
            probe>>

\* mutant of StartAccepted: the encoding is started by the click handler itself
StartAccepted_Synchronous ==
  /\ status = "IDLE"
  /\ audioFile # NoFile /\ textFile # NoFile
  /\ audioFile.size <= MaxAudioBytes
  /\ status' = "PROCESSING"
  /\ loadingMessage' = "encoding audio"
  /\ pc' = "encode"
  /\ attempt' = [NoAttempt EXCEPT !.started = TRUE]
  /\ lastOp' = "handleAutoProcess:start"
  /\ alertMsg' = NoAlert
  /\ aiResponse' = Null
  /\ download' = Null
  /\ UNCHANGED <<audioFile, textFile, audioSrc, lines, meta, currentTime,
                 errMsg, edits, probe>>

\* App.tsx:72-76: show the loading screen, schedule the task with setTimeout
StartAccepted ==
  /\ status = "IDLE"
  /\ ~InputMissing
  /\ ~TooLarge
  /\ status' = "PROCESSING"
  /\ loadingMessage' = "loading files"
  /\ pc' = "timer"
  /\ attempt' = [NoAttempt EXCEPT !.started = TRUE]
  /\ lastOp' = "handleAutoProcess:start"
  /\ alertMsg' = NoAlert
  /\ aiResponse' = Null
  /\ download' = Null
  /\ UNCHANGED <<audioFile, textFile, audioSrc, lines, meta, currentTime,
                 errMsg, edits, probe>>

handleAutoProcess ==
  \/ StartRejectedMissing
  \/ StartRejectedTooLarge
  \/ StartAccepted

\* App.tsx:76-81: the timer fires; fileToBase64 is started
TimerFires ==
  /\ pc = "timer"
  /\ loadingMessage' = "encoding audio"
  /\ pc' = "encode"
  /\ lastOp' = "task:encodeStarted"
  /\ alertMsg' = NoAlert
  /\ aiResponse' = Null
  /\ download' = Null
  /\ UNCHANGED <<status, audioFile, textFile, audioSrc, lines, meta,
                 currentTime, errMsg, attempt, edits, probe>>

\* App.tsx:81-85: fileToBase64 resolves; textFile.text() is started
EncodeResolves ==
  /\ pc = "encode"
  /\ loadingMessage' = "reading lyrics"
  /\ pc' = "read"
  /\ attempt' = [attempt EXCEPT !.encodeOk = TRUE]
  /\ lastOp' = "task:encoded"
  /\ alertMsg' = NoAlert
  /\ aiResponse' = Null
  /\ download' = Null
  /\ UNCHANGED <<status, audioFile, textFile, audioSrc, lines, meta,
                 currentTime, errMsg, edits, probe>>

\* the messages fileToBase64 can reject with: its own Error (utils.ts:45) or
\* the reader's error event, which has no message (utils.ts:48)
EncodeErrors == {"Failed to convert file to base64", "Unknown error"}

\* App.tsx:101-106: the catch block takes msg and sets the second timer
CatchError(msg) ==
  /\ errMsg' = msg
  /\ pc' = "errTimer"
  /\ alertMsg' = NoAlert
  /\ aiResponse' = Null
  /\ download' = Null
  /\ UNCHANGED <<status, audioFile, textFile, audioSrc, lines, meta,
                 currentTime, loadingMessage, attempt, edits, probe>>

\* App.tsx:81 rejects
EncodeRejects ==
  /\ pc = "encode"
  /\ \E msg \in EncodeErrors : CatchError(msg)
  /\ lastOp' = "task:encodeFailed"

\* App.tsx:85-95: text() resolves; the AI service is called
ReadResolves ==
  /\ pc = "read"
  /\ loadingMessage' = "running AI analysis"
  /\ pc' = "ai"
  /\ attempt' = [attempt EXCEPT !.readOk = TRUE, !.aiCalls = @ + 1]
  /\ lastOp' = "task:aiCalled"
  /\ alertMsg' = NoAlert
  /\ aiResponse' = Null
  /\ download' = Null
  /\ UNCHANGED <<status, audioFile, textFile, audioSrc, lines, meta,
                 currentTime, errMsg, edits, probe>>

\* mutant of ReadRejects: a failed read of the lyrics gives up at once
ReadRejects_GivesUp ==
  /\ pc = "read"
  /\ status' = "IDLE"
  /\ pc' = "none"
  /\ lastOp' = "task:readFailed"
  /\ alertMsg' = NoAlert
  /\ aiResponse' = Null
  /\ download' = Null
  /\ UNCHANGED <<audioFile, textFile, audioSrc, lines, meta, currentTime,
                 loadingMessage, errMsg, attempt, edits, probe>>

\* App.tsx:85 rejects
ReadRejects ==
  /\ pc = "read"
  /\ CatchError("The file could not be read")
  /\ lastOp' = "task:readFailed"

\* mutant of AiSettles: a failed call is made a second time
AiSettles_Retry ==
  /\ pc = "ai"
  /\ \E response \in AiResponses :
       IF TryThrows(response) /\ attempt.aiCalls < 2
       THEN /\ attempt' = [attempt EXCEPT !.aiCalls = @ + 1]
            /\ aiResponse' = response
            /\ lastOp' = "task:aiCalled"
            /\ UNCHANGED <<lines, loadingMessage, status, pc, edits>>
       ELSE /\ \E ids \in IdSeqs(ResultLen(response, textFile.content), {}) :
                 lines' = analyzeLyricsWithAudio(response, textFile.content,
                                                 ids)
            /\ attempt' = [attempt EXCEPT !.aiFailed = TryThrows(response)]
            /\ aiResponse' = response
            /\ loadingMessage' = "building editor"
            /\ status' = "EDITING"
            /\ pc' = "none"
            /\ edits' = 0
            /\ lastOp' = "task:aiSettled"
  /\ alertMsg' = NoAlert
  /\ download' = Null
  /\ UNCHANGED <<audioFile, textFile, audioSrc, meta, currentTime, errMsg, probe>>

\* App.tsx:95-99: analyzeLyricsWithAudio fulfils (it never rejects)
AiSettles ==
  /\ pc = "ai"
  /\ \E response \in AiResponses :
       \E ids \in IdSeqs(ResultLen(response, textFile.content), {}) :
         /\ lines' = analyzeLyricsWithAudio(response, textFile.content, ids)
         /\ attempt' = [attempt EXCEPT !.aiFailed = TryThrows(response)]
         /\ aiResponse' = response
  /\ loadingMessage' = "building editor"
  /\ status' = "EDITING"
  /\ pc' = "none"
  /\ edits' = 0
  /\ lastOp' = "task:aiSettled"
  /\ alertMsg' = NoAlert
  /\ download' = Null
  /\ UNCHANGED <<audioFile, textFile, audioSrc, meta, currentTime, errMsg, probe>>

\* App.tsx:106-110: the second timer fires: alert, then text() is started
ErrTimerFires ==
  /\ pc = "errTimer"
  /\ alertMsg' = AlertAiError(errMsg)
  /\ aiResponse' = Null
  /\ download' = Null
  /\ attempt' = [attempt EXCEPT !.errorShown = TRUE]
  /\ errMsg' = ""
  /\ pc' = "fallbackRead"
  /\ lastOp' = "task:errorAlert"
  /\ UNCHANGED <<status, audioFile, textFile, audioSrc, lines, meta,
                 currentTime, loadingMessage, edits, probe>>

\* App.tsx:110-115
FallbackReadResolves ==
  /\ pc = "fallbackRead"
  /\ \E ids \in IdSeqs(Len(SelectSeq(Split(textFile.content, NL), NonBlank)),
                       {}) :
       lines' = rawLines(textFile.content, ids)
  /\ status' = "EDITING"
  /\ pc' = "none"
  /\ edits' = 0
  /\ lastOp' = "task:fallbackBuilt"
  /\ alertMsg' = NoAlert
  /\ aiResponse' = Null
  /\ download' = Null
  /\ UNCHANGED <<audioFile, textFile, audioSrc, meta, currentTime,
                 loadingMessage, errMsg, attempt, probe>>

\* mutant of FallbackReadRejects: the rejection is not handled
FallbackReadRejects_Unhandled ==
  /\ pc = "fallbackRead"
  /\ pc' = "none"
  /\ lastOp' = "task:fallbackReadFailed"
  /\ alertMsg' = NoAlert
  /\ aiResponse' = Null
  /\ download' = Null
  /\ UNCHANGED <<status, audioFile, textFile, audioSrc, lines, meta,
                 currentTime, loadingMessage, errMsg, attempt, edits, probe>>

\* App.tsx:116-118
FallbackReadRejects ==
  /\ pc = "fallbackRead"
  /\ status' = "IDLE"
  /\ pc' = "none"
  /\ lastOp' = "task:fallbackReadFailed"
  /\ alertMsg' = NoAlert
  /\ aiResponse' = Null
  /\ download' = Null
  /\ UNCHANGED <<audioFile, textFile, audioSrc, lines, meta, currentTime,
                 loadingMessage, errMsg, attempt, edits, probe>>

\* the steps of the analysis task
Task ==
  \/ TimerFires
  \/ EncodeResolves
  \/ EncodeRejects
  \/ ReadResolves
  \/ ReadRejects
  \/ AiSettles
  \/ ErrTimerFires
  \/ FallbackReadResolves
  \/ FallbackReadRejects

(***************************************************************************)
(* The editor view, rendered only when status is EDITING (App.tsx:225,     *)
(* 326).  Array indices are JavaScript's, from 0.                          *)
(***************************************************************************)
At(ls, index) == ls[index + 1]

Indices(ls) == 0..(Len(ls) - 1)

IdsOf(ls) == { ls[i].id : i \in 1..Len(ls) }

\* { ...line, ...updates }
Merge(line, updates) ==
  [k \in DOMAIN line \cup DOMAIN updates |->
     IF k \in DOMAIN updates THEN updates[k] ELSE line[k]]

\* mutant of handleUpdateLine: the id is not compared
handleUpdateLine_EveryLine(ls, id, updates) ==
  [i \in 1..Len(ls) |-> Merge(ls[i], updates)]

\* App.tsx:124-126
handleUpdateLine(ls, id, updates) ==
  [i \in 1..Len(ls) |->
     IF ls[i].id = id THEN Merge(ls[i], updates) ELSE ls[i]]

\* mutant of DeleteLine: the filter keeps what it should drop
DeleteLine_KeepsMatch(ls, id) == SelectSeq(ls, LAMBDA line : line.id = id)

\* App.tsx:130
DeleteLine(ls, id) == SelectSeq(ls, LAMBDA line : line.id # id)

\* mutant of InsertTime: a position equal to the previous timestamp is taken
InsertTime_NotStrict(prevLine, now) ==
  IF now >= prevLine.timestamp THEN now ELSE prevLine.timestamp + 2000

\* App.tsx:135-141
InsertTime(prevLine, now) ==
  IF now > prevLine.timestamp THEN now ELSE prevLine.timestamp + 2000

\* App.tsx:143-151
InsertAfter(ls, index, id, now) ==
  SubSeq(ls, 1, index + 1)
    \o << [id |-> id, timestamp |-> InsertTime(At(ls, index), now),
           text |-> <<>>] >>
    \o SubSeq(ls, index + 2, Len(ls))

\* EditorRow.tsx:37-39
AdjustedTime(line, delta) ==
  IF line.timestamp + delta > 0 THEN line.timestamp + delta ELSE 0

\* mutant of InsertSorted: a line also goes before the lines it ties with
InsertSorted_TiesFirst(sorted, line) ==
  LET before == SelectSeq(sorted, LAMBDA l : l.timestamp < line.timestamp)
      after  == SelectSeq(sorted, LAMBDA l : l.timestamp >= line.timestamp)
  IN  before \o <<line>> \o after

\* Array.prototype.sort with the comparator a.timestamp - b.timestamp is a
\* stable sort; here by insertion: a line goes before the first line the
\* comparator puts after it
RECURSIVE InsertSorted(_, _)
InsertSorted(sorted, line) ==
  IF sorted = <<>> THEN <<line>>
  ELSE IF Head(sorted).timestamp - line.timestamp > 0
       THEN <<line>> \o sorted
       ELSE <<Head(sorted)>> \o InsertSorted(Tail(sorted), line)

\* App.tsx:170
RECURSIVE sortedLines(_)
sortedLines(ls) ==
  IF ls = <<>> THEN <<>>
  ELSE InsertSorted(sortedLines(SubSeq(ls, 1, Len(ls) - 1)), ls[Len(ls)])

\* mutant of Join: every string is followed by the separator, the last too
RECURSIVE Join_Trailing(_, _)
Join_Trailing(strs, sep) ==
  IF strs = <<>> THEN <<>>
  ELSE strs[1] \o <<sep>> \o Join_Trailing(Tail(strs), sep)

\* Array.prototype.join(sep) for a one-character separator
RECURSIVE Join(_, _)
Join(strs, sep) ==
  IF strs = <<>> THEN <<>>
  ELSE IF Len(strs) = 1 THEN strs[1]
  ELSE strs[1] \o <<sep>> \o Join(Tail(strs), sep)

\* App.tsx:172-174, before the join: one string per line
bodyRows(ls) ==
  [k \in 1..Len(ls) |->
     formatLrcTime(sortedLines(ls)[k].timestamp) \o sortedLines(ls)[k].text]

\* App.tsx:167
metaHeader(mt) ==
  <<"[", "t", "i", ":">> \o mt.title \o <<"]", NL>>
    \o <<"[", "a", "r", ":">> \o mt.artist \o <<"]", NL>>
    \o <<"[", "a", "l", ":">> \o mt.album \o <<"]", NL>>
    \o <<"[", "b", "y", ":">> \o mt.by \o <<"]", NL>>

\* App.tsx:166-177
generateLrcOutput(ls, mt) == metaHeader(mt) \o Join(bodyRows(ls), NL)

\* App.tsx:185
DownloadName(mt) ==
  (IF mt.title # <<>> THEN mt.title ELSE <<"s", "o", "n", "g">>)
    \o <<".", "l", "r", "c">>

\* mutant of ScanActive: the scan goes on past a line that has not started
RECURSIVE ScanActive_NoBreak(_, _, _, _)
ScanActive_NoBreak(ls, t, i, index) ==
  IF i >= Len(ls) THEN index
  ELSE IF t >= At(ls, i).timestamp THEN ScanActive_NoBreak(ls, t, i + 1, i)
  ELSE ScanActive_NoBreak(ls, t, i + 1, index)

\* mutant of ScanActive: a line starts only after its timestamp has passed
RECURSIVE ScanActive_Strict(_, _, _, _)
ScanActive_Strict(ls, t, i, index) ==
  IF i >= Len(ls) THEN index
  ELSE IF t > At(ls, i).timestamp THEN ScanActive_Strict(ls, t, i + 1, i)
  ELSE index

\* App.tsx:203-213: the loop, i being the next index to look at
RECURSIVE ScanActive(_, _, _, _)
ScanActive(ls, t, i, index) ==
  IF i >= Len(ls) THEN index
  ELSE IF t >= At(ls, i).timestamp THEN ScanActive(ls, t, i + 1, i)
  ELSE index

\* App.tsx:202-214
activeLineIndex(ls, t) == ScanActive(ls, t, 0, -1)

\* what every editor event leaves alone
EditorEvent(op) ==
  /\ status = "EDITING"
  /\ edits < MaxEdits
  /\ edits' = edits + 1
  /\ lastOp' = op
  /\ alertMsg' = NoAlert
  /\ aiResponse' = Null
  /\ UNCHANGED <<status, audioFile, textFile, audioSrc, loadingMessage, pc,
                 errMsg, attempt, probe>>

\* mutant of EditText: the edited line is given a new id
EditText_NewId ==
  /\ EditorEvent("updateLine:text")
  /\ download' = Null
  /\ \E index \in Indices(lines), txt \in TypedTexts :
       lines' = handleUpdateLine(lines, At(lines, index).id,
                  [text |-> txt, id |-> FreshId(IdsOf(lines))])
  /\ UNCHANGED <<meta, currentTime>>

\* EditorRow.tsx:91: typing into a line's text box
EditText ==
  /\ EditorEvent("updateLine:text")
  /\ download' = Null
  /\ \E index \in Indices(lines), txt \in TypedTexts :
       lines' = handleUpdateLine(lines, At(lines, index).id, [text |-> txt])
  /\ UNCHANGED <<meta, currentTime>>

\* EditorRow.tsx:72, 81: the two nudge buttons
AdjustTime ==
  /\ EditorEvent("updateLine:adjustTime")
  /\ download' = Null
  /\ \E index \in Indices(lines), delta \in {-100, 100} :
       lines' = handleUpdateLine(lines, At(lines, index).id,
                  [timestamp |-> AdjustedTime(At(lines, index), delta)])
  /\ UNCHANGED <<meta, currentTime>>

\* mutant of handleSync: the review flag is left as it was
handleSync_KeepsReview ==
  /\ EditorEvent("handleSync")
  /\ download' = Null
  /\ \E index \in Indices(lines), time \in PlaybackPositions :
       lines' = handleUpdateLine(lines, At(lines, index).id,
                  [timestamp |-> time])
  /\ UNCHANGED <<meta, currentTime>>

\* App.tsx:154-158; the audio element is mounted with the editor view, and
\* `time` is the position it is at when asked
handleSync ==
  /\ EditorEvent("handleSync")
  /\ download' = Null
  /\ \E index \in Indices(lines), time \in PlaybackPositions :
       lines' = handleUpdateLine(lines, At(lines, index).id,
                  [timestamp |-> time, needsReview |-> FALSE])
  /\ UNCHANGED <<meta, currentTime>>

\* App.tsx:128-132
handleDeleteLine ==
  /\ \E index \in Indices(lines) :
       \/ /\ EditorEvent("handleDeleteLine:confirmed")
          /\ download' = Null
          /\ lines' = DeleteLine(lines, At(lines, index).id)
       \/ /\ EditorEvent("handleDeleteLine:declined")
          /\ download' = Null
          /\ lines' = lines
  /\ UNCHANGED <<meta, currentTime>>

\* App.tsx:134-152
handleInsertAfter ==
  /\ EditorEvent("handleInsertAfter")
  /\ download' = Null
  /\ \E index \in Indices(lines), id \in generateId(IdsOf(lines)) :
       lines' = InsertAfter(lines, index, id, currentTime)
  /\ UNCHANGED <<meta, currentTime>>

\* App.tsx:411
AppendLine ==
  /\ EditorEvent("appendLine")
  /\ download' = Null
  /\ \E id \in generateId(IdsOf(lines)) :
       lines' = Append(lines, [id |-> id, timestamp |-> currentTime,
                               text |-> <<>>])
  /\ UNCHANGED <<meta, currentTime>>

\* App.tsx:369 with Player.tsx:24-27: the audio element reports its position
TimeUpdate ==
  /\ EditorEvent("onTimeUpdate")
  /\ download' = Null
  /\ \E time \in PlaybackPositions : currentTime' = time
  /\ UNCHANGED <<lines, meta>>

\* App.tsx:160-164: moves the audio element only
handleSeek ==
  /\ EditorEvent("handleSeek")
  /\ download' = Null
  /\ lines # <<>>
  /\ UNCHANGED <<lines, meta, currentTime>>

\* App.tsx:350, 463, 472
EditMeta ==
  /\ EditorEvent("setMeta")
  /\ download' = Null
  /\ \E field \in {"title", "artist", "album"}, v \in TypedMeta :
       meta' = [meta EXCEPT ![field] = v]
  /\ UNCHANGED <<lines, currentTime>>

\* App.tsx:179-189: writes a file, changes no state of the app
handleDownload ==
  /\ EditorEvent("handleDownload")
  /\ download' = [name |-> DownloadName(meta),
                  content |-> generateLrcOutput(lines, meta)]
  /\ UNCHANGED <<lines, meta, currentTime>>

\* mutant of resetApp: the lines are left in the store
resetApp_KeepsLines ==
  \/ /\ status = "EDITING"
     /\ lastOp' = "resetApp:confirmed"
     /\ alertMsg' = NoAlert
     /\ aiResponse' = Null
     /\ download' = Null
     /\ status' = "IDLE"
     /\ audioFile' = NoFile
     /\ textFile' = NoFile
     /\ audioSrc' = Null
     /\ meta' = DefaultMeta
     /\ attempt' = NoAttempt
     /\ edits' = 0
     /\ UNCHANGED <<lines, currentTime, loadingMessage, pc, errMsg, probe>>
  \/ /\ EditorEvent("resetApp:declined")
     /\ download' = Null
     /\ UNCHANGED <<lines, meta, currentTime>>

\* mutant of resetApp: the answer to the confirmation is not looked at
resetApp_Unconfirmed ==
  /\ status = "EDITING"
  /\ \E answer \in {"confirmed", "declined"} :
       lastOp' = IF answer = "confirmed" THEN "resetApp:confirmed"
                 ELSE "resetApp:declined"
  /\ alertMsg' = NoAlert
  /\ aiResponse' = Null
  /\ download' = Null
  /\ status' = "IDLE"
  /\ audioFile' = NoFile
  /\ textFile' = NoFile
  /\ lines' = <<>>
  /\ audioSrc' = Null
  /\ meta' = DefaultMeta
  /\ attempt' = NoAttempt
  /\ edits' = 0
  /\ UNCHANGED <<currentTime, loadingMessage, pc, errMsg, probe>>

\* App.tsx:191-200; the button is in the editor view's header (App.tsx:331)
resetApp ==
  \/ /\ status = "EDITING"
     /\ lastOp' = "resetApp:confirmed"
     /\ alertMsg' = NoAlert
     /\ aiResponse' = Null
     /\ download' = Null
     /\ status' = "IDLE"
     /\ audioFile' = NoFile
     /\ textFile' = NoFile
     /\ lines' = <<>>
     /\ audioSrc' = Null
     /\ meta' = DefaultMeta
     /\ attempt' = NoAttempt
     /\ edits' = 0
     /\ UNCHANGED <<currentTime, loadingMessage, pc, errMsg, probe>>
  \/ /\ EditorEvent("resetApp:declined")
     /\ download' = Null
     /\ UNCHANGED <<lines, meta, currentTime>>

Editor ==
  \/ EditText
  \/ AdjustTime
  \/ handleSync
  \/ handleDeleteLine
  \/ handleInsertAfter
  \/ AppendLine
  \/ TimeUpdate
  \/ handleSeek
  \/ EditMeta
  \/ handleDownload

Next ==
  \/ \E file \in AudioFiles : handleAudioUpload(file)
  \/ \E file \in TextFiles : handleTextUpload(file)
  \/ handleAutoProcess
  \/ Task
  \/ Editor
  \/ resetApp

Spec == Init /\ [][Next]_vars

\* every timer fires and every awaited promise settles
FairSpec == Spec /\ WF_vars(Task)

(***************************************************************************)
(* Editing sessions on their own.  The documents are ones analyses leave   *)
(* behind, built here by the operators above: answers of the AI service    *)
(* with the times it returned, the controller's fallback, and a line       *)
(* inserted with the + button.  The session starts at any playback         *)
(* position the player has reported.                                       *)
(***************************************************************************)
SessionAudio == [name |-> <<"s", ".", "m", "p", "3">>, size |-> MaxAudioBytes]
SessionText == [content |-> <<"a", NL, "b">>]

\* the answer of the spec's example: [00:05.00] h 0.9, [00:10.50] w 0.4
ExampleAnswer ==
  [kind |-> "json", parsed |-> [lines |->
    << [time |-> <<"[", "0", "0", ":", "0", "5", ".", "0", "0", "]">>,
        text |-> <<"h">>, confidence |-> 90],
       [time |-> <<"[", "0", "0", ":", "1", "0", ".", "5", "0", "]">>,
        text |-> <<"w">>, confidence |-> 40] >>]]

\* times out of order and a tie: [00:10.00] b, [00:02.00] a, 00:10 c
UnorderedAnswer ==
  [kind |-> "json", parsed |-> [lines |->
    << [time |-> <<"[", "0", "0", ":", "1", "0", ".", "0", "0", "]">>,
        text |-> <<"b">>, confidence |-> 90],
       [time |-> <<"[", "0", "0", ":", "0", "2", ".", "0", "0", "]">>,
        text |-> <<"a">>, confidence |-> 90],
       [time |-> <<"0", "0", ":", "1", "0">>,
        text |-> <<"c">>, confidence |-> 40] >>]]

\* [00:00.29] h, and a time with a leading minus sign: -1:02.5
OddTimesAnswer ==
  [kind |-> "json", parsed |-> [lines |->
    << [time |-> <<"[", "0", "0", ":", "0", "0", ".", "2", "9", "]">>,
        text |-> <<"h">>, confidence |-> 90],
       [time |-> <<"-", "1", ":", "0", "2", ".", "5">>,
        text |-> <<>>, confidence |-> 70] >>]]

EmptyAnswer == [kind |-> "json", parsed |-> [lines |-> <<>>]]

DocEmpty ==
  analyzeLyricsWithAudio(EmptyAnswer, SessionText.content, <<>>)
\* the example, with a line inserted after the first at position 3
DocInserted ==
  InsertAfter(analyzeLyricsWithAudio(ExampleAnswer, SessionText.content,
                                     <<1, 2>>), 0, 3, 3000)
DocUnordered ==
  analyzeLyricsWithAudio(UnorderedAnswer, SessionText.content, <<1, 2, 3>>)
\* the example, generateId having returned the same id twice
DocSameId ==
  analyzeLyricsWithAudio(ExampleAnswer, SessionText.content, <<1, 1>>)
DocOddTimes ==
  analyzeLyricsWithAudio(OddTimesAnswer, SessionText.content, <<1, 2>>)
DocFallback == rawLines(SessionText.content, <<1, 2>>)

Documents ==
  {DocEmpty, DocInserted, DocUnordered, DocSameId, DocOddTimes, DocFallback}

StoreInit ==
  /\ status = "EDITING"
  /\ audioFile = SessionAudio
  /\ textFile = SessionText
  /\ audioSrc = [blob |-> SessionAudio]
  /\ lines \in Documents
  /\ meta = [DefaultMeta EXCEPT !.title = StripExtension(SessionAudio.name)]
  /\ currentTime \in PlaybackPositions
  /\ loadingMessage = "building editor"
  /\ pc = "none"
  /\ errMsg = ""
  /\ attempt = [NoAttempt EXCEPT !.started = TRUE]
  /\ lastOp = "init"
  /\ alertMsg = NoAlert
  /\ aiResponse = Null
  /\ edits = 0
  /\ download = Null
  /\ probe = Null

StoreSpec == StoreInit /\ [][Editor]_vars

(***************************************************************************)
(* The functions of utils.ts on their own: formatLrcTime and parseLrcTime  *)
(* applied to arguments drawn from bounded sets, the app left as           *)
(* constructed.                                                            *)
(***************************************************************************)
\* the largest number of hundredths of a second tried one by one
MaxHundredths == 130

\* seconds values, in milliseconds: every whole number of hundredths up to
\* the bound; values past one minute, one hour and one hundred minutes; a
\* value with a third decimal; negative values
SecondsValues ==
  { 10 * h : h \in 0..MaxHundredths }
    \cup {5125, 59990, 60000, 65290, 3599990, 6000000, 6000070}
    \cup {-10, -500, -57500, -60000}

\* strings that are no [mm:ss.xx]: the empty string, no colon, two colons, a
\* colon alone, letters for the minutes, letters for the seconds, characters
\* after the seconds, characters after the minutes, no digit before the
\* colon, brackets in odd places
MalformedStrings ==
  { <<>>,
    <<"a", "b", "c">>,
    <<"0", "5", "3", "0">>,
    <<"1", ":", "2", ":", "3">>,
    <<":">>,
    <<"a", "b", ":", "1", "0">>,
    <<"0", "1", ":", "x", "y">>,
    <<"0", "1", ":", "3", "0", "x">>,
    <<"[", "0", "1", "x", ":", "3", "0", "]">>,
    <<":", "3", "0">>,
    <<"]", "0", "1", "[", ":", "[", "0", "5", "]">> }

\* more strings of the form: without brackets, a single-digit part, minutes
\* past 99, a third decimal
PlainStrings ==
  { <<"0", "1", ":", "1", "2", ".", "3", "4">>,
    <<"2", ":", "5">>,
    <<"1", "0", "0", ":", "0", "0", ".", "0", "0">>,
    <<"[", "0", "0", ":", "0", "5", ".", "1", "2", "5", "]">> }

\* time strings: what formatLrcTime writes, strings the AI returned, and
\* the two sets above
TimeStrings ==
  { formatLrcTime(x) : x \in SecondsValues }
    \cup { ExampleAnswer.parsed.lines[i].time : i \in 1..2 }
    \cup { UnorderedAnswer.parsed.lines[i].time : i \in 1..3 }
    \cup { OddTimesAnswer.parsed.lines[i].time : i \in 1..2 }
    \cup MalformedStrings
    \cup PlainStrings

AppAtRest ==
  UNCHANGED <<status, audioFile, textFile, audioSrc, lines, meta,
              currentTime, loadingMessage, pc, errMsg, attempt, lastOp,
              alertMsg, aiResponse, edits, download>>

FormatCall ==
  /\ \E seconds \in SecondsValues :
       probe' = [fn |-> "formatLrcTime", arg |-> seconds,
                 out |-> formatLrcTime(seconds)]
  /\ AppAtRest

ParseCall ==
  /\ \E timeStr \in TimeStrings :
       probe' = [fn |-> "parseLrcTime", arg |-> timeStr,
                 out |-> parseLrcTime(timeStr)]
  /\ AppAtRest

UtilNext == FormatCall \/ ParseCall

UtilSpec == Init /\ [][UtilNext]_vars

(***************************************************************************)
(* Vocabulary of the claims.                                               *)
(***************************************************************************)
StartOps ==
  {"handleAutoProcess:missing", "handleAutoProcess:tooLarge",
   "handleAutoProcess:start"}

\* the non-blank lines of a text, found without split, filter or trim: the
\* text is cut at its newlines, and a piece counts when it holds a character
\* that is not white space
Cuts(text) ==
  {0} \cup { i \in 1..Len(text) : text[i] = NL } \cup {Len(text) + 1}

Piece(text, c) ==
  LET next == CHOOSE d \in Cuts(text) :
                d > c /\ \A e \in Cuts(text) : e > c => d <= e
  IN  SubSeq(text, c + 1, next - 1)

Ink(piece) == { i \in 1..Len(piece) : piece[i] \notin {" ", "\t", CR, NL} }

InkCuts(text) ==
  { c \in Cuts(text) : c <= Len(text) /\ Ink(Piece(text, c)) # {} }

\* the piece without the white space around it
Core(piece) ==
  LET first == CHOOSE i \in Ink(piece) : \A j \in Ink(piece) : i <= j
      last  == CHOOSE i \in Ink(piece) : \A j \in Ink(piece) : j <= i
  IN  SubSeq(piece, first, last)

\* ls is the manual-fallback document of text: one line per non-blank line,
\* in order, each with timestamp 0 and needsReview set
IsManualDocument(ls, text) ==
  /\ Len(ls) = Cardinality(InkCuts(text))
  /\ \A k \in 1..Len(ls) :
       LET c == CHOOSE d \in InkCuts(text) :
                  Cardinality({ e \in InkCuts(text) : e <= d }) = k
       IN  /\ DOMAIN ls[k] = {"id", "timestamp", "text", "needsReview"}
           /\ ls[k].text = Core(Piece(text, c))
           /\ ls[k].timestamp = 0
           /\ ls[k].needsReview = TRUE

\* the AI's answer has the shape the contract asks for
SchemaValid(response) ==
  /\ response.kind = "json"
  /\ "lines" \in DOMAIN response.parsed
  /\ \A i \in 1..Len(response.parsed.lines) :
       DOMAIN response.parsed.lines[i] = {"time", "text", "confidence"}

\* the AI call failed: it threw, or what it returned cannot be mapped
AiCallFailed == aiResponse # Null /\ ~SchemaValid(aiResponse)

(***************************************************************************)
(* C1.  Every entry into Processing is eventually followed by a state      *)
(* whose status is Editing or Idle, whichever way the attempt goes,        *)
(* provided every timer fires and every awaited step settles.              *)
(***************************************************************************)
ProcessingEnds == (status = "PROCESSING") ~> (status \in {"EDITING", "IDLE"})

\* an attempt whose AI call failed has ended in Editing
ProcessingEnds_Witness ==
  status = "EDITING" /\ attempt.started /\ attempt.aiFailed

(***************************************************************************)
(* C2.  The status changes only along Idle -> Processing, Processing ->    *)
(* Editing, Processing -> Idle and Editing -> Idle, and Editing is left    *)
(* only by a confirmed reset.                                              *)
(***************************************************************************)
StatusTransitions ==
  [][status' # status =>
       \/ status = "IDLE" /\ status' = "PROCESSING"
       \/ status = "PROCESSING" /\ status' \in {"EDITING", "IDLE"}
       \/ /\ status = "EDITING"
          /\ status' = "IDLE"
          /\ lastOp' = "resetApp:confirmed"]_vars

\* a confirmed reset has returned an edited document's session to Idle
StatusTransitions_Witness ==
  status = "IDLE" /\ lastOp = "resetApp:confirmed"

(***************************************************************************)
(* C3.  When the AI call fails, an error is shown to the user before the   *)
(* controller is in Editing with the manual-fallback document.             *)
(***************************************************************************)
AiFailureShown ==
  (status = "EDITING" /\ attempt.aiFailed) => attempt.errorShown

(***************************************************************************)
(* C4.  The manual-fallback document has exactly one line per non-blank    *)
(* line of the raw text, in the text's order, each with timestamp 0 and    *)
(* needsReview = true.                                                     *)
(***************************************************************************)
ManualFallbackDocument ==
  (lastOp = "task:fallbackBuilt" \/ (lastOp = "task:aiSettled" /\ attempt.aiFailed))
    => IsManualDocument(lines, textFile.content)

\* three non-blank lines and a blank one give three lines
ManualFallbackDocument_Witness ==
  /\ lastOp = "task:fallbackBuilt"
  /\ textFile.content = <<"a", NL, "b", NL, NL, "c">>
  /\ Len(lines) = 3

SchemaViolationFallsBack ==
  (lastOp = "task:aiSettled" /\ AiCallFailed)
    => IsManualDocument(lines, textFile.content)

(***************************************************************************)
(* C7.  A start with an audio input of more than 25*1024*1024 bytes is     *)
(* rejected: the status stays Idle, the AI is not invoked, the lines and   *)
(* both inputs are unchanged, and a message is shown.                      *)
(***************************************************************************)
OversizeRejected ==
  [][(/\ lastOp' \in StartOps
      /\ audioFile # NoFile
      /\ textFile # NoFile
      /\ audioFile.size > 25 * 1024 * 1024)
     => /\ status = "IDLE" /\ status' = "IDLE"
        /\ pc' = "none"
        /\ attempt'.aiCalls = attempt.aiCalls
        /\ UNCHANGED <<lines, audioFile, textFile>>
        /\ alertMsg' = AlertTooLarge]_vars

OversizeRejected_Witness ==
  /\ lastOp = "handleAutoProcess:tooLarge"
  /\ alertMsg = AlertTooLarge
  /\ textFile # NoFile
  /\ audioFile.size = 25 * 1024 * 1024 + 1
  /\ status = "IDLE"

(***************************************************************************)
(* C8.  In an attempt in which the audio encoding and the text read both   *)
(* succeed, the AI collaborator is invoked exactly once, also when that    *)
(* invocation fails; it is never invoked otherwise.                        *)
(***************************************************************************)
AiInvokedOnce ==
  attempt.aiCalls = IF attempt.encodeOk /\ attempt.readOk THEN 1 ELSE 0

\* an attempt has left Processing after its one invocation failed
AiInvokedOnce_Witness ==
  /\ status = "EDITING"
  /\ attempt.encodeOk /\ attempt.readOk
  /\ attempt.aiFailed
  /\ attempt.aiCalls = 1

(***************************************************************************)
(* C9.  The status is set to Processing by a step that ends before the     *)
(* slow work starts: the start step leaves the task waiting on its timer,  *)
(* and the encoding is started only from that state.                       *)
(***************************************************************************)
ProcessingBeforeSlowWork ==
  [][/\ (status # "PROCESSING" /\ status' = "PROCESSING")
          => (pc' = "timer" /\ ~attempt'.encodeOk /\ attempt'.aiCalls = 0)
     /\ (pc # "encode" /\ pc' = "encode")
          => (status = "PROCESSING" /\ pc = "timer")]_vars

\* Processing is shown and no slow work has started
ProcessingBeforeSlowWork_Witness ==
  /\ status = "PROCESSING"
  /\ pc = "timer"
  /\ lastOp = "handleAutoProcess:start"

(***************************************************************************)
(* C10.  Processing is entered only with both inputs present, and a start  *)
(* request with an input missing changes nothing and invokes nothing.      *)
(***************************************************************************)
BothInputsRequired ==
  [][/\ (status # "PROCESSING" /\ status' = "PROCESSING")
          => (audioFile # NoFile /\ textFile # NoFile)
     /\ (lastOp' \in StartOps /\ (audioFile = NoFile \/ textFile = NoFile))
          => /\ UNCHANGED <<status, audioFile, textFile, lines, pc, attempt>>
             /\ alertMsg' = NoAlert]_vars

\* a start was requested with the lyrics missing
BothInputsRequired_Witness ==
  /\ lastOp = "handleAutoProcess:missing"
  /\ audioFile # NoFile
  /\ textFile = NoFile
  /\ status = "IDLE"

(***************************************************************************)
(* C11.  The controller leaves Processing for Idle only by the failure     *)
(* path's own read of the lyrics failing, after the error was shown, and   *)
(* the document is empty then; an attempt that ends any other way ends in  *)
(* Editing.                                                                *)
(***************************************************************************)
IdleOnlyWhenFallbackReadFails ==
  [][/\ (status = "PROCESSING" /\ status' = "IDLE")
          => /\ pc = "fallbackRead"
             /\ lastOp' = "task:fallbackReadFailed"
             /\ attempt.errorShown
             /\ lines' = <<>>
     /\ (status = "PROCESSING" /\ pc' = "none"
           /\ lastOp' # "task:fallbackReadFailed")
          => status' = "EDITING"]_vars

\* the fallback's read failed after a failed encoding or read
IdleOnlyWhenFallbackReadFails_Witness ==
  /\ status = "IDLE"
  /\ lastOp = "task:fallbackReadFailed"
  /\ attempt.started /\ attempt.errorShown
  /\ lines = <<>>

(***************************************************************************)
(* C12.  No two lines of the document have the same id.                    *)
(***************************************************************************)
UniqueIds ==
  \A i, j \in 1..Len(lines) : lines[i].id = lines[j].id => i = j

(***************************************************************************)
(* C13.  Every line's timestamp is at least 0.                             *)
(***************************************************************************)
NonNegativeTimestamps ==
  \A i \in 1..Len(lines) : lines[i].timestamp >= 0


\* the body of an exported file: what follows its four header lines
HeaderEnd(content) ==
  CHOOSE i \in 1..Len(content) :
    /\ content[i] = NL
    /\ Cardinality({ j \in 1..i : content[j] = NL }) = 4

BodyOf(content) == SubSeq(content, HeaderEnd(content) + 1, Len(content))

\* its output lines
OutputLines(content) ==
  IF BodyOf(content) = <<>> THEN <<>> ELSE Split(BodyOf(content), NL)

\* where a stable ascending sort by timestamp puts the i-th line of ls: after
\* the lines with a smaller timestamp and the earlier lines with the same one
ExportRank(ls, i) ==
  Cardinality({ j \in 1..Len(ls) : ls[j].timestamp < ls[i].timestamp })
    + Cardinality({ j \in 1..i : ls[j].timestamp = ls[i].timestamp })

\* the store position of the line exported k-th
ExportedLine(ls, k) == CHOOSE i \in 1..Len(ls) : ExportRank(ls, i) = k

BracketOf(row) ==
  SubSeq(row, 1, CHOOSE i \in 1..Len(row) :
                   row[i] = "]" /\ \A j \in 1..(i - 1) : row[j] # "]")

\* a time cut to hundredths of a second
TruncatedToHundredths(t) ==
  IF t >= 0 THEN (t \div 10) * 10 ELSE 0 - (((0 - t) \div 10) * 10)

(***************************************************************************)
(* C15.  Parsing the bracketed timestamp of each output line of an         *)
(* exported file gives the timestamp of the store line it was written      *)
(* from, cut to hundredths of a second.                                    *)
(***************************************************************************)
ExportRoundTrip ==
  download # Null =>
    LET out == OutputLines(download.content)
    IN  /\ Len(out) = Len(lines)
        /\ \A k \in 1..Len(lines) :
             parseLrcTime(BracketOf(out[k]))
               = TruncatedToHundredths(
                   lines[ExportedLine(lines, k)].timestamp)


(***************************************************************************)
(* C16.  For a seconds value that is not negative and is a whole number of *)
(* hundredths of a second, parsing what formatLrcTime writes gives the     *)
(* value back.                                                             *)
(***************************************************************************)
FormatParseRoundTrip ==
  (/\ probe # Null
   /\ probe.fn = "formatLrcTime"
   /\ probe.arg >= 0
   /\ probe.arg % 10 = 0)
    => parseLrcTime(probe.out) = probe.arg


\* the length of the longest prefix of ls whose timestamps are all <= t
StartedPrefix(ls, t) ==
  CHOOSE k \in 0..Len(ls) :
    /\ \A i \in 1..k : ls[i].timestamp <= t
    /\ k < Len(ls) => ls[k + 1].timestamp > t

\* lines with the timestamps 0, 10 and 20
TenSecondsApart ==
  [i \in 1..3 |-> [id |-> i, timestamp |-> (i - 1) * 10000, text |-> <<>>]]

InsertAfterAddsOneLine ==
  [][lastOp' = "handleInsertAfter" =>
       /\ Len(lines') = Len(lines) + 1
       /\ \E index \in Indices(lines) :
            LET prev == At(lines, index)
                new  == At(lines', index + 1)
            IN  /\ \A i \in 0..index : At(lines', i) = At(lines, i)
                /\ \A i \in (index + 1)..(Len(lines) - 1) :
                     At(lines', i + 1) = At(lines, i)
                /\ new.text = <<>>
                /\ new.timestamp = IF currentTime > prev.timestamp
                                   THEN currentTime
                                   ELSE prev.timestamp + 2000
                /\ new.timestamp >= prev.timestamp
       /\ InsertTime([timestamp |-> 5000], 3000) = 7000
       /\ InsertTime([timestamp |-> 5000], 8000) = 8000
       /\ InsertTime([timestamp |-> 5000], 5000) = 7000]_vars

\* a line inserted after the first line of the fallback document while the
\* position equals that line's timestamp, 0
InsertAfterAddsOneLine_Witness ==
  /\ lastOp = "handleInsertAfter"
  /\ currentTime = 0
  /\ Len(lines) = 3
  /\ lines[1].timestamp = 0 /\ lines[1].text = <<"a">>
  /\ lines[2].timestamp = 2000 /\ lines[2].text = <<>>
  /\ lines[3].timestamp = 0 /\ lines[3].text = <<"b">>


(***************************************************************************)
(* C19.  syncToPlayback(id, p) on an id of the document sets the timestamp *)
(* of the line with that id to the playback position p and its needsReview *)
(* to false, whether it was true, false or unset before; it keeps that     *)
(* line's id and text, and leaves every line with another id, the number   *)
(* of lines and the display order as they were.                            *)
(***************************************************************************)
SyncSetsTimeAndClearsReview ==
  [][lastOp' = "handleSync" =>
       /\ Len(lines') = Len(lines)
       /\ \E id \in IdsOf(lines), p \in PlaybackPositions :
            \A i \in 1..Len(lines) :
              IF lines[i].id = id
              THEN /\ DOMAIN lines'[i] = DOMAIN lines[i] \cup {"needsReview"}
                   /\ lines'[i].timestamp = p
                   /\ lines'[i].needsReview = FALSE
                   /\ lines'[i].id = lines[i].id
                   /\ lines'[i].text = lines[i].text
              ELSE lines'[i] = lines[i]]_vars

\* the inserted line of the example, whose needsReview was unset, synced to
\* position 8; the lines around it flagged false and true as before
SyncSetsTimeAndClearsReview_Witness ==
  /\ lastOp = "handleSync"
  /\ Len(lines) = 3
  /\ lines[2] = [id |-> 3, timestamp |-> 8000, text |-> <<>>,
                 needsReview |-> FALSE]
  /\ lines[1].needsReview = FALSE
  /\ lines[3].needsReview = TRUE


\* the steps that call updateLine, and the fields each of them gives
UpdateOps == {"updateLine:text", "updateLine:adjustTime", "handleSync"}

GivenFields(op) ==
  IF op = "updateLine:text" THEN {"text"}
  ELSE IF op = "updateLine:adjustTime" THEN {"timestamp"}
  ELSE {"timestamp", "needsReview"}

\* an id no line of ls has
AbsentId(ls) == CHOOSE n \in 1..(Len(ls) + 1) : n \notin IdsOf(ls)

(***************************************************************************)
(* C20.  updateLine(id, fields) changes only the given fields of the       *)
(* line(s) whose id matches: the number of lines, the display order and    *)
(* every line with another id stay as they were; with an id no line has,   *)
(* the document is unchanged.                                              *)
(***************************************************************************)
UpdateLineChangesOnlyGivenFields ==
  [][/\ lastOp' \in UpdateOps =>
          /\ Len(lines') = Len(lines)
          /\ \E id \in IdsOf(lines) :
               \A i \in 1..Len(lines) :
                 IF lines[i].id = id
                 THEN /\ DOMAIN lines'[i]
                           = DOMAIN lines[i] \cup GivenFields(lastOp')
                      /\ \A f \in DOMAIN lines[i] \ GivenFields(lastOp') :
                           lines'[i][f] = lines[i][f]
                 ELSE lines'[i] = lines[i]
     /\ \A updates \in {[text |-> <<"x">>], [timestamp |-> 8000],
                        [timestamp |-> 8000, needsReview |-> FALSE]} :
          handleUpdateLine(lines, AbsentId(lines), updates) = lines]_vars

\* "x" typed into the first line of the example with an inserted line: its
\* text changed, its other fields and the other two lines did not
UpdateLineChangesOnlyGivenFields_Witness ==
  /\ lastOp = "updateLine:text"
  /\ Len(lines) = 3
  /\ lines[1] = [id |-> 1, timestamp |-> 5000, text |-> <<"x">>,
                 needsReview |-> FALSE]
  /\ lines[2] = [id |-> 3, timestamp |-> 7000, text |-> <<>>]
  /\ lines[3] = [id |-> 2, timestamp |-> 10500, text |-> <<"w">>,
                 needsReview |-> TRUE]


\* the positions of the lines of ls whose id is not id
KeptPositions(ls, id) == { i \in 1..Len(ls) : ls[i].id # id }

(***************************************************************************)
(* C21.  A confirmed deleteLine(id) removes, in one step, the line(s)      *)
(* whose id matches (exactly one line where ids are unique) and keeps      *)
(* every other line with its fields, in the same relative order; a         *)
(* declined confirmation, or an id no line has, leaves the document as it  *)
(* was.                                                                    *)
(***************************************************************************)
DeleteRemovesOnlyMatchingLine ==
  [][/\ lastOp' = "handleDeleteLine:confirmed" =>
          \E id \in IdsOf(lines) :
            LET kept == KeptPositions(lines, id)
            IN  /\ Len(lines') = Cardinality(kept)
                /\ \A i \in kept :
                     lines'[Cardinality({ j \in kept : j <= i })] = lines[i]
                /\ Cardinality(IdsOf(lines)) = Len(lines)
                     => Len(lines') = Len(lines) - 1
     /\ lastOp' = "handleDeleteLine:declined" => lines' = lines
     /\ DeleteLine(lines, AbsentId(lines)) = lines]_vars

\* the inserted line of the example was deleted: the two lines of the
\* example are left, as they were
DeleteRemovesOnlyMatchingLine_Witness ==
  /\ lastOp = "handleDeleteLine:confirmed"
  /\ lines = << [id |-> 1, timestamp |-> 5000, text |-> <<"h">>,
                 needsReview |-> FALSE],
                [id |-> 2, timestamp |-> 10500, text |-> <<"w">>,
                 needsReview |-> TRUE] >>

\* the ids of a document, in display order
IdSequence(ls) == [i \in 1..Len(ls) |-> ls[i].id]

(***************************************************************************)
(* C22.  No mutation of an existing line changes its id: a text edit, a    *)
(* timestamp nudge or a sync leaves the sequence of ids in display order   *)
(* as it was; an insert or an append changes it only by the one added id,  *)
(* a delete only by the removed id; no other editor event changes it.      *)
(***************************************************************************)
MutationKeepsIds ==
  [][LET before == IdSequence(lines)
         after  == IdSequence(lines')
     IN  /\ lastOp' \in UpdateOps => after = before
         /\ lastOp' = "handleInsertAfter" =>
              \E index \in Indices(lines) :
                /\ Len(after) = Len(before) + 1
                /\ SubSeq(after, 1, index + 1) = SubSeq(before, 1, index + 1)
                /\ SubSeq(after, index + 3, Len(after))
                     = SubSeq(before, index + 2, Len(before))
         /\ lastOp' = "appendLine" =>
              /\ Len(after) = Len(before) + 1
              /\ SubSeq(after, 1, Len(before)) = before
         /\ lastOp' = "handleDeleteLine:confirmed" =>
              \E id \in IdsOf(lines) :
                after = SelectSeq(before, LAMBDA x : x # id)
         /\ lastOp' \in {"handleDeleteLine:declined", "onTimeUpdate",
                         "handleSeek", "setMeta", "handleDownload",
                         "resetApp:declined"} => after = before]_vars

\* the inserted line of the example nudged from 7.0 to 7.1: the ids are 1, 3
\* and 2 as before
MutationKeepsIds_Witness ==
  /\ lastOp = "updateLine:adjustTime"
  /\ IdSequence(lines) = <<1, 3, 2>>
  /\ lines[2].timestamp = 7100


\* a time string without its brackets, and where its colons are
Unbracketed(str) == SelectSeq(str, LAMBDA c : c # "[" /\ c # "]")

Colons(str) ==
  { i \in 1..Len(Unbracketed(str)) : Unbracketed(str)[i] = ":" }

\* its two parts, when it has one colon
MinutesPart(str) ==
  SubSeq(Unbracketed(str), 1, (CHOOSE i \in Colons(str) : TRUE) - 1)

SecondsPart(str) ==
  SubSeq(Unbracketed(str), (CHOOSE i \in Colons(str) : TRUE) + 1,
         Len(Unbracketed(str)))

IsDigits(s) == s # <<>> /\ \A i \in 1..Len(s) : s[i] \in Digits

Unsigned(s) == IF s # <<>> /\ Head(s) \in {"-", "+"} THEN Tail(s) ELSE s

\* digits, with an optional sign
IsWholeNumber(s) == IsDigits(Unsigned(s))

\* digits, or digits "." digits, with an optional sign
IsDecimalNumber(s) ==
  \/ IsDigits(Unsigned(s))
  \/ \E i \in 1..Len(Unsigned(s)) :
       /\ Unsigned(s)[i] = "."
       /\ IsDigits(SubSeq(Unsigned(s), 1, i - 1))
       /\ IsDigits(SubSeq(Unsigned(s), i + 1, Len(Unsigned(s))))

RECURSIVE Pow10(_)
Pow10(n) == IF n = 0 THEN 1 ELSE 10 * Pow10(n - 1)

\* the number a string of digits writes
RECURSIVE DigitsValue(_)
DigitsValue(ds) ==
  IF ds = <<>> THEN 0
  ELSE DigitVal(Head(ds)) * Pow10(Len(ds) - 1) + DigitsValue(Tail(ds))

\* the milliseconds a decimal number of seconds writes (to three decimals)
DecimalMs(s) ==
  LET u     == Unsigned(s)
      dots  == { i \in 1..Len(u) : u[i] = "." }
      whole == IF dots = {} THEN u
               ELSE SubSeq(u, 1, (CHOOSE i \in dots : TRUE) - 1)
      frac  == IF dots = {} THEN <<>>
               ELSE SubSeq(u, (CHOOSE i \in dots : TRUE) + 1, Len(u))
      pad   == SubSeq(frac \o <<"0", "0", "0">>, 1, 3)
      mag   == 1000 * DigitsValue(whole) + DigitsValue(pad)
  IN  IF s # <<>> /\ Head(s) = "-" THEN 0 - mag ELSE mag

WholeValue(s) ==
  IF Head(s) = "-" THEN 0 - DigitsValue(Unsigned(s))
  ELSE DigitsValue(Unsigned(s))

\* malformed: not exactly one colon, or a part that is no number
Malformed(str) ==
  \/ Cardinality(Colons(str)) # 1
  \/ ~IsDecimalNumber(MinutesPart(str))
  \/ ~IsDecimalNumber(SecondsPart(str))

\* of the form minutes:seconds, the seconds with or without a fraction
WellFormed(str) ==
  /\ Cardinality(Colons(str)) = 1
  /\ IsWholeNumber(MinutesPart(str))
  /\ IsDecimalNumber(SecondsPart(str))

(***************************************************************************)
(* C23.  parseLrcTime returns 0 for every malformed string: one with no    *)
(* colon or more than one, one whose minutes or seconds part is no number  *)
(* (a number followed by other characters included), and the empty string. *)
(***************************************************************************)
MalformedParsesToZero ==
  (/\ probe # Null
   /\ probe.fn = "parseLrcTime"
   /\ Malformed(probe.arg))
    => probe.out = 0

(***************************************************************************)
(* C24.  For a string that, without its brackets, is minutes:seconds with  *)
(* both parts numbers, parseLrcTime returns minutes * 60 + seconds, the    *)
(* seconds with their fraction: "[00:10.50]" gives 10.5 and "01:12.34"     *)
(* gives 72.34.                                                            *)
(***************************************************************************)
WellFormedParsesToSeconds ==
  /\ (/\ probe # Null
      /\ probe.fn = "parseLrcTime"
      /\ WellFormed(probe.arg))
       => probe.out = WholeValue(MinutesPart(probe.arg)) * 60000
                        + DecimalMs(SecondsPart(probe.arg))
  /\ parseLrcTime(<<"[", "0", "0", ":", "1", "0", ".", "5", "0", "]">>)
       = 10500
  /\ parseLrcTime(<<"0", "1", ":", "1", "2", ".", "3", "4">>) = 72340

\* "01:12.34" was parsed to 72.34
WellFormedParsesToSeconds_Witness ==
  /\ probe # Null
  /\ probe.fn = "parseLrcTime"
  /\ probe.arg = <<"0", "1", ":", "1", "2", ".", "3", "4">>
  /\ probe.out = 72340


\* two digits writing n, for n in 0..99
TwoDigits(n) == <<DigitChars[(n \div 10) + 1], DigitChars[(n % 10) + 1]>>

(***************************************************************************)
(* C25.  For a seconds value x that is not negative, formatLrcTime writes  *)
(* "[MM:SS.CC]": MM the whole minutes of x in at least two digits, SS the  *)
(* whole seconds past the minute in two digits, CC the hundredths of x     *)
(* past the second in two digits, each cut and never rounded.              *)
(***************************************************************************)
FormatWritesTruncatedFields ==
  (/\ probe # Null
   /\ probe.fn = "formatLrcTime"
   /\ probe.arg >= 0)
    => LET x  == probe.arg
           MM == IF x \div 60000 < 10 THEN TwoDigits(x \div 60000)
                 ELSE DecimalDigits(x \div 60000)
           SS == TwoDigits((x \div 1000) % 60)
           CC == TwoDigits((x \div 10) % 100)
       IN  probe.out = <<"[">> \o MM \o <<":">> \o SS \o <<".">> \o CC
                         \o <<"]">>

(***************************************************************************)
(* C27.  formatLrcTime writes "[00:00.00]" for every negative seconds      *)
(* value, as it does for 0.                                                *)
(***************************************************************************)
FormatClampsNegative ==
  (/\ probe # Null
   /\ probe.fn = "formatLrcTime"
   /\ probe.arg < 0)
    => /\ probe.out = <<"[", "0", "0", ":", "0", "0", ".", "0", "0", "]">>
       /\ probe.out = formatLrcTime(0)


\* the header render writes for the metadata mt
RenderedHeader(mt) ==
  <<"[", "t", "i", ":">> \o mt.title \o <<"]", NL,
    "[", "a", "r", ":">> \o mt.artist \o <<"]", NL,
    "[", "a", "l", ":">> \o mt.album \o <<"]", NL,
    "[", "b", "y", ":">> \o mt.by \o <<"]", NL>>

\* the k-th body line of ls: the time and the text of the line a stable sort
\* puts k-th, nothing between them
RenderedRow(ls, k) ==
  formatLrcTime(ls[ExportedLine(ls, k)].timestamp)
    \o ls[ExportedLine(ls, k)].text

\* where the k-th body line starts in the rendered file
RECURSIVE RowStart(_, _, _)
RowStart(ls, mt, k) ==
  IF k = 1 THEN Len(RenderedHeader(mt)) + 1
  ELSE RowStart(ls, mt, k - 1) + Len(RenderedRow(ls, k - 1)) + 1

(***************************************************************************)
(* C26.  The rendered file is the header [ti:..] [ar:..] [al:..] [by:..],  *)
(* each tag line ended by a newline, followed by the body lines            *)
(* format(timestamp) + text of the stably time-sorted lines, with one      *)
(* newline between two body lines and none after the last; for an empty    *)
(* store it is the header alone.                                           *)
(***************************************************************************)
RenderIsHeaderThenJoinedBody ==
  download # Null =>
    LET content == download.content
        header  == RenderedHeader(meta)
        n       == Len(lines)
    IN  /\ Len(content) >= Len(header)
        /\ SubSeq(content, 1, Len(header)) = header
        /\ Len(content) = IF n = 0 THEN Len(header)
                          ELSE RowStart(lines, meta, n)
                                 + Len(RenderedRow(lines, n)) - 1
        /\ \A k \in 1..n :
             LET start == RowStart(lines, meta, k)
                 row   == RenderedRow(lines, k)
             IN  /\ SubSeq(content, start, start + Len(row) - 1) = row
                 /\ k < n => content[start + Len(row)] = NL

\* the example with its inserted line, rendered
RenderIsHeaderThenJoinedBody_Witness ==
  /\ lastOp = "handleDownload"
  /\ IdSequence(lines) = <<1, 3, 2>>
  /\ download.content
       = <<"[", "t", "i", ":", "s", "]", NL,
           "[", "a", "r", ":", "]", NL,
           "[", "a", "l", ":", "]", NL,
           "[", "b", "y", ":", "LyricalSync AI", "]", NL,
           "[", "0", "0", ":", "0", "5", ".", "0", "0", "]", "h", NL,
           "[", "0", "0", ":", "0", "7", ".", "0", "0", "]", NL,
           "[", "0", "0", ":", "1", "0", ".", "5", "0", "]", "w">>


(***************************************************************************)
(* C28.  After every completed event, when status is Idle or Processing    *)
(* the store holds no line: lines are there only in Editing, a confirmed   *)
(* reset empties the store, and an attempt that falls back to Idle leaves  *)
(* it empty.                                                               *)
(***************************************************************************)
NoLinesOutsideEditing ==
  status \in {"IDLE", "PROCESSING"} => lines = <<>>

\* back in Idle by a confirmed reset, after an editing session in which the
\* player had moved on
NoLinesOutsideEditing_Witness ==
  /\ status = "IDLE"
  /\ lastOp = "resetApp:confirmed"
  /\ currentTime > 0
  /\ lines = <<>>


\* the steps of the analysis task, by the name each leaves in lastOp
TaskOps ==
  {"task:encodeStarted", "task:encoded", "task:encodeFailed", "task:aiCalled",
   "task:readFailed", "task:aiSettled", "task:errorAlert",
   "task:fallbackBuilt", "task:fallbackReadFailed"}

(***************************************************************************)
(* C29.  While status is Processing the only event is a step of the        *)
(* pending analysis task: no second analysis starts, no input file is      *)
(* replaced, no line is changed and nothing is reset.  So a task is        *)
(* pending exactly while status is Processing: an analysis starts only     *)
(* when none is pending, and a task step happens only in Processing.       *)
(***************************************************************************)
OnlyTheTaskRunsWhileProcessing ==
  [][ /\ status = "PROCESSING" =>
           /\ lastOp' \in TaskOps
           /\ UNCHANGED <<audioFile, textFile, audioSrc, meta, currentTime,
                          edits>>
           /\ lines' # lines => status' = "EDITING"
      /\ lastOp' = "handleAutoProcess:start" =>
           pc = "none" /\ status = "IDLE" /\ pc' = "timer"
      /\ lastOp' \in TaskOps => status = "PROCESSING" /\ pc # "none"
      /\ (pc' # "none") <=> (status' = "PROCESSING") ]_vars

\* the analysis is waiting for the AI service's answer
OnlyTheTaskRunsWhileProcessing_Witness ==
  /\ status = "PROCESSING"
  /\ lastOp = "task:aiCalled"
  /\ pc = "ai"
  /\ audioFile # NoFile /\ textFile # NoFile


\* playback positions to compare: the session's, and for every line its
\* timestamp and the hundredths just before and after it
PositionsAround(ls) ==
  PlaybackPositions \cup {currentTime, -1000}
    \cup UNION { {ls[p].timestamp - 10, ls[p].timestamp, ls[p].timestamp + 10}
                 : p \in DOMAIN ls }

\* the display order is the time order
TimeSorted(ls) ==
  \A p, q \in DOMAIN ls : p < q => ls[p].timestamp <= ls[q].timestamp

\* the greatest index whose line has started at t, or -1
LastStarted(ls, t) ==
  LET started == { i \in Indices(ls) : At(ls, i).timestamp <= t }
  IN  IF started = {} THEN -1
      ELSE CHOOSE i \in started : \A j \in started : j <= i

(***************************************************************************)
(* C30.  For a fixed store, in any display order, the active index does    *)
(* not decrease when the playback position grows, and it lies in           *)
(* -1 .. (number of lines - 1).  When the display order is the time order, *)
(* it is the greatest index whose timestamp is at most the position.       *)
(***************************************************************************)
ActiveIndexMonotone ==
  /\ \A t1, t2 \in PositionsAround(lines) :
       t1 <= t2 => activeLineIndex(lines, t1) <= activeLineIndex(lines, t2)
  /\ \A t \in PositionsAround(lines) :
       /\ activeLineIndex(lines, t) \in (-1)..(Len(lines) - 1)
       /\ TimeSorted(lines) =>
            activeLineIndex(lines, t) = LastStarted(lines, t)

\* the player reports position 8 in the example with its inserted line
\* (5, 7, 10.5): the second line is the active one, and at 10.5 the third
ActiveIndexMonotone_Witness ==
  /\ lastOp = "onTimeUpdate"
  /\ currentTime = 8000
  /\ IdSequence(lines) = <<1, 3, 2>>
  /\ TimeSorted(lines)
  /\ activeLineIndex(lines, currentTime) = 1
  /\ activeLineIndex(lines, 10500) = 2


====
